---- MODULE Spec2Model ----
(***************************************************************************)
(* The event telemetry client of the interview workspace                   *)
(* (frontend/src/services/eventTracker.ts) together with the Event Store   *)
(* it posts to through apiService.logEvent (frontend/src/services/api.ts). *)
(*                                                                         *)
(* The client is a single JavaScript object driven by one event loop: each *)
(* action below is one run-to-completion step (a public method call, a     *)
(* timer callback, or the resumption of the delivery loop after its        *)
(* awaited request settles).                                               *)
(*                                                                         *)
(* The Session Phase Controller (submit, complete) runs in the backend; it *)
(* is modelled from its contract, and emits its events through the client. *)
(***************************************************************************)
EXTENDS Integers, Sequences, FiniteSets, TLC

\* ---------------------------------------------------------------- bounds
MaxEvents == 4      \* events accepted by trackEvent in a behaviour of SpecDelivery
MaxTimedEvents == 2 \* events accepted by trackEvent in a behaviour of Spec
MaxTicks == 2       \* clock steps in a behaviour of Spec
MaxLostAcks == 1    \* deliveries the store recorded whose acknowledgement is lost
MaxSessionEvents == 2 \* events accepted by trackEvent in a behaviour of SpecSessions
MaxPhaseEvents == 2 \* events a UI handler may track in a behaviour of SpecPhase
MaxCalls == 3       \* calls of submit() and complete() in a behaviour of SpecPhase
MaxClassifyEvents == 2 \* events tracked before the last trackSQLComplexity call of a
                    \* behaviour of SpecClassify
MaxClassifyCalls == 3 \* calls of trackSQLComplexity in a behaviour of SpecClassify
MaxRetryEvents == 3 \* events accepted by trackEvent in a behaviour of SpecRetry
MaxStampEvents == 2 \* events accepted by trackEvent in a behaviour of SpecStamp
MaxExecutions == 2  \* executeCell calls in a behaviour of SpecNotebook
MaxCellIds == 2     \* cells created in a behaviour of SpecNotebook, the first included
MaxEdits == 1       \* updateCellCode calls in a behaviour of SpecNotebook

\* ------------------------------------------------------ program constants
idleThreshold == 5000               \* eventTracker.ts:92, milliseconds

TickStep == idleThreshold           \* granularity of the modelled clock
MaxTime == MaxTicks * TickStep

NONE == "null"                      \* sessionId: string | null
Sessions == {"A", "B"}
ActivityTypes == {"CODE_EDIT"}      \* non-synthetic event types that are tracked
IDLE_GAP == "IDLE_GAP"
PHASE_SUBMITTED == "PHASE_SUBMITTED"
INTERVIEW_STARTED == "INTERVIEW_STARTED"
INTERVIEW_QUESTION == "INTERVIEW_QUESTION"
SESSION_COMPLETED == "SESSION_COMPLETED"

\* Session.phase, in the order of its transitions
Phases == <<"coding", "interview", "completed">>
InvalidTransition == "InvalidTransition"
UNSET == -1                         \* submitted_at?: absent

VARIABLES
    sessionId,          \* EventTracker.sessionId
    eventQueue,         \* EventTracker.eventQueue
    isProcessing,       \* EventTracker.isProcessing
    lastActivityTime,   \* EventTracker.lastActivityTime
    idleTimer,          \* EventTracker.idleTimer: handle of the last timeout, 0 = undefined
    timers,             \* timeouts pending in the JavaScript runtime
    inflight,           \* logEvent requests awaited by a suspended processQueue
    store,              \* the Event Store: records in append order
    now,                \* Date.now()
    tracked,            \* history: every event accepted by trackEvent, in enqueue order
    acked,              \* history: client ids whose delivery the client saw succeed
    failedUnrecorded,   \* history: client ids with a failed attempt the store did not record
    lostAcks,           \* history: per client id, attempts recorded by the store but seen as failed
    abandoned,          \* history: client ids still held by the client that were
                        \* tracked before a cleanup()
    phase,              \* Session.phase
    submitted_at,       \* Session.submitted_at, UNSET while absent
    serverNow,          \* the controller's clock: one instant per call it serves
    submitStep,         \* position of a running submit(): 0 = none running
    questionRequests,   \* history: outcomes of the requests to the question service
    lastResult,         \* what the last submit() or complete() returned to its caller
    forceEnded,         \* history: the last complete() was called for an abandoned or
                        \* force-ended session
    returned,           \* history: per call of trackSQLComplexity, the text, what the call
                        \* returned and the state of the tracker at the call
    emitting,           \* running trackSQLComplexity: the events it has still to track
    insights,           \* Session.insights: <<>> while null, else <<the Insights record>>
    analysis,           \* running analyze(): <<>> if none, else <<its event log, the
                        \* number of times it has called the synthesis service>>
    analyzed,           \* history: <<>> or <<the event log, the response of the synthesis
                        \* service and the result of the last analyze() that returned,
                        \* and Session.insights as it was before>>
    cells,              \* NotebookContainer: the cells state
    globalExecutionCount, \* NotebookContainer: the globalExecutionCount state
    lastCellId,         \* the id of the cell created last: Date.now() of its addCell
    executing,          \* executeCell calls suspended in the await of their request
    resuming,           \* executeCell running again after its request: <<>> if none,
                        \* else <<the call, the outcome, the tracker calls still to make>>
    calls               \* history: the tracker methods and the request the executeCell
                        \* calls have called, in order

phaseVars == <<phase, submitted_at, serverNow, submitStep, questionRequests, lastResult,
               forceEnded>>

classifyVars == <<returned, emitting>>

analyzeVars == <<insights, analysis, analyzed>>
notebookVars == <<cells, globalExecutionCount, lastCellId, executing, resuming, calls>>

vars == <<sessionId, eventQueue, isProcessing, lastActivityTime, idleTimer, timers,
          inflight, store, now, tracked, acked, failedUnrecorded, lostAcks, abandoned,
          phase, submitted_at, serverNow, submitStep, questionRequests, lastResult,
          forceEnded,
          returned, emitting, insights, analysis, analyzed,
          cells, globalExecutionCount, lastCellId, executing, resuming, calls>>

\* ------------------------------------------------------ SQL complexity
\* A text is the sequence of its characters.
\* "SELECT * FROM t"
SimpleQuery ==
    <<"S", "E", "L", "E", "C", "T", " ", "*", " ", "F", "R", "O", "M", " ", "t">>

\* "SELECT c.name, COUNT(o.id) FROM c LEFT JOIN o ON c.id=o.cid GROUP BY c.name
\* HAVING COUNT(o.id)>5"
JoinGroupQuery ==
    <<"S", "E", "L", "E", "C", "T", " ", "c", ".", "n", "a", "m", "e", ",", " ",
      "C", "O", "U", "N", "T", "(", "o", ".", "i", "d", ")", " ", "F", "R", "O",
      "M", " ", "c", " ", "L", "E", "F", "T", " ", "J", "O", "I", "N", " ", "o",
      " ", "O", "N", " ", "c", ".", "i", "d", "=", "o", ".", "c", "i", "d", " ",
      "G", "R", "O", "U", "P", " ", "B", "Y", " ", "c", ".", "n", "a", "m", "e",
      " ", "H", "A", "V", "I", "N", "G", " ", "C", "O", "U", "N", "T", "(", "o",
      ".", "i", "d", ")", ">", "5">>

\* "select a from t where a in (Select b from u)"
NestedQuery ==
    <<"s", "e", "l", "e", "c", "t", " ", "a", " ", "f", "r", "o", "m", " ", "t",
      " ", "w", "h", "e", "r", "e", " ", "a", " ", "i", "n", " ", "(", "S", "e",
      "l", "e", "c", "t", " ", "b", " ", "f", "r", "o", "m", " ", "u", ")">>

\* "the adjoining rows": not SQL
ProseText ==
    <<"t", "h", "e", " ", "a", "d", "j", "o", "i", "n", "i", "n",
      "g", " ", "r", "o", "w", "s">>

\* "SELECT name, email, city, phone FROM customers WHERE region = 'FR' AND city =
\* 'Paris' AND active = 1 ORDER BY name, email": 121 characters, a WHERE clause only
LongQuery ==
    <<"S", "E", "L", "E", "C", "T", " ", "n", "a", "m", "e", ",", " ", "e", "m",
      "a", "i", "l", ",", " ", "c", "i", "t", "y", ",", " ", "p", "h", "o", "n",
      "e", " ", "F", "R", "O", "M", " ", "c", "u", "s", "t", "o", "m", "e", "r",
      "s", " ", "W", "H", "E", "R", "E", " ", "r", "e", "g", "i", "o", "n", " ",
      "=", " ", "'", "F", "R", "'", " ", "A", "N", "D", " ", "c", "i", "t", "y",
      " ", "=", " ", "'", "P", "a", "r", "i", "s", "'", " ", "A", "N", "D", " ",
      "a", "c", "t", "i", "v", "e", " ", "=", " ", "1", " ", "O", "R", "D", "E",
      "R", " ", "B", "Y", " ", "n", "a", "m", "e", ",", " ", "e", "m", "a", "i",
      "l">>

\* The texts trackSQLComplexity is called with; the empty text is one of them.
QueryTexts == <<SimpleQuery, JoinGroupQuery, NestedQuery, ProseText, <<>>, LongQuery>>

\* The code of a cell is held as the position of its text in QueryTexts. The
\* starter query of the first cell is a plain SELECT, the code of a new cell a
\* comment without SQL, and the candidate types a nested query.
StarterCode == 1
NewCellCode == 4
TypedCodes == {3}

LowerCase == <<"a", "b", "c", "d", "e", "f", "g", "h", "i", "j", "k", "l", "m",
               "n", "o", "p", "q", "r", "s", "t", "u", "v", "w", "x", "y", "z">>
UpperCase == <<"A", "B", "C", "D", "E", "F", "G", "H", "I", "J", "K", "L", "M",
               "N", "O", "P", "Q", "R", "S", "T", "U", "V", "W", "X", "Y", "Z">>

\* String.prototype.toUpperCase on ASCII text.
toUpperCase(s) ==
    [i \in DOMAIN s |->
        IF \E k \in DOMAIN LowerCase : LowerCase[k] = s[i]
        THEN UpperCase[CHOOSE k \in DOMAIN LowerCase : LowerCase[k] = s[i]]
        ELSE s[i]]

\* String.prototype.substring(start, end): both indices are clamped to the text and
\* swapped when start is the larger; the characters from start up to end, end excluded.
substring(s, start, end) ==
    LET clamp(n) == IF n < 0 THEN 0 ELSE IF n > Len(s) THEN Len(s) ELSE n
        from == IF clamp(start) <= clamp(end) THEN clamp(start) ELSE clamp(end)
        to == IF clamp(start) <= clamp(end) THEN clamp(end) ELSE clamp(start)
    IN  SubSeq(s, from + 1, to)

\* Positions at which pat occurs in s.
occurrences(s, pat) ==
    {i \in 1..(Len(s) - Len(pat) + 1) : SubSeq(s, i, i + Len(pat) - 1) = pat}

\* String.prototype.includes(pat); RegExp.test for an alternation of literals.
includes(s, pat) == occurrences(s, pat) # {}
test(alternatives, s) == \E pat \in alternatives : includes(s, pat)

\* (s.match(/pat/gi) || []).length for a literal pattern that cannot overlap itself.
matchCountIgnoreCase(s, pat) == Cardinality(occurrences(toUpperCase(s), pat))

\* The literals of the patterns.
JOIN == <<"J", "O", "I", "N">>
COUNT == <<"C", "O", "U", "N", "T">>
SUM == <<"S", "U", "M">>
AVG == <<"A", "V", "G">>
MAX == <<"M", "A", "X">>
MIN == <<"M", "I", "N">>
SELECT == <<"S", "E", "L", "E", "C", "T">>
GROUP_BY == <<"G", "R", "O", "U", "P", " ", "B", "Y">>
WHERE == <<"W", "H", "E", "R", "E">>
OVER == <<"O", "V", "E", "R">>
PARTITION_BY == <<"P", "A", "R", "T", "I", "T", "I", "O", "N", " ", "B", "Y">>

\* Mutants of classify: the tags are computed only on an initialized tracker; no
\* SELECT at all is enough for has_subquery; one SELECT is enough for has_subquery.
classifyWhenBound(query) ==
    LET upperQuery == toUpperCase(query)
        bound == sessionId # NONE
    IN  [has_join |-> bound /\ includes(upperQuery, JOIN),
         has_aggregate |-> bound /\ test({COUNT, SUM, AVG, MAX, MIN}, upperQuery),
         has_subquery |-> bound /\ matchCountIgnoreCase(query, SELECT) > 1,
         has_groupby |-> bound /\ includes(upperQuery, GROUP_BY),
         has_where |-> bound /\ includes(upperQuery, WHERE),
         has_window |-> bound /\ test({OVER, PARTITION_BY}, upperQuery)]
classifySubqueryFromNone(query) ==
    LET upperQuery == toUpperCase(query)
    IN  [has_join |-> includes(upperQuery, JOIN),
         has_aggregate |-> test({COUNT, SUM, AVG, MAX, MIN}, upperQuery),
         has_subquery |-> matchCountIgnoreCase(query, SELECT) > -1,
         has_groupby |-> includes(upperQuery, GROUP_BY),
         has_where |-> includes(upperQuery, WHERE),
         has_window |-> test({OVER, PARTITION_BY}, upperQuery)]
classifySubqueryFromOne(query) ==
    LET upperQuery == toUpperCase(query)
    IN  [has_join |-> includes(upperQuery, JOIN),
         has_aggregate |-> test({COUNT, SUM, AVG, MAX, MIN}, upperQuery),
         has_subquery |-> matchCountIgnoreCase(query, SELECT) > 0,
         has_groupby |-> includes(upperQuery, GROUP_BY),
         has_where |-> includes(upperQuery, WHERE),
         has_window |-> test({OVER, PARTITION_BY}, upperQuery)]

\* The complexity record trackSQLComplexity(query) computes and returns.
classify(query) ==
    LET upperQuery == toUpperCase(query)
    IN  [has_join |-> includes(upperQuery, JOIN),
         has_aggregate |-> test({COUNT, SUM, AVG, MAX, MIN}, upperQuery),
         has_subquery |-> matchCountIgnoreCase(query, SELECT) > 1,
         has_groupby |-> includes(upperQuery, GROUP_BY),
         has_where |-> includes(upperQuery, WHERE),
         has_window |-> test({OVER, PARTITION_BY}, upperQuery)]

\* Mutant of complexityEvents: the aggregate event is tracked before the join event.
complexityEventsAggregateFirst(c, query) ==
    LET event(type) ==
            <<[type |-> type,
               event_metadata |-> [query_snippet |-> substring(query, 0, 100)]]>>
    IN  (IF c.has_aggregate THEN event("AGGREGATE_USED") ELSE <<>>)
        \o (IF c.has_join THEN event("TABLE_JOINED") ELSE <<>>)
        \o (IF c.has_subquery THEN event("SUBQUERY_USED") ELSE <<>>)
        \o (IF c.has_groupby THEN event("GROUPING_APPLIED") ELSE <<>>)
        \o (IF c.has_where THEN event("FILTER_APPLIED") ELSE <<>>)
        \o (IF c.has_window THEN event("WINDOW_FUNCTION_USED") ELSE <<>>)

\* The trackEvent calls trackSQLComplexity makes for a complexity record and its
\* query, in the order of its if statements: the type and the metadata of each.
complexityEvents(c, query) ==
    LET event(type) ==
            <<[type |-> type,
               event_metadata |-> [query_snippet |-> substring(query, 0, 100)]]>>
    IN  (IF c.has_join THEN event("TABLE_JOINED") ELSE <<>>)
        \o (IF c.has_aggregate THEN event("AGGREGATE_USED") ELSE <<>>)
        \o (IF c.has_subquery THEN event("SUBQUERY_USED") ELSE <<>>)
        \o (IF c.has_groupby THEN event("GROUPING_APPLIED") ELSE <<>>)
        \o (IF c.has_where THEN event("FILTER_APPLIED") ELSE <<>>)
        \o (IF c.has_window THEN event("WINDOW_FUNCTION_USED") ELSE <<>>)

\* ------------------------------------------------------------ JS timers
\* clearTimeout(handle): the pending timeout with that handle, if any, is cancelled.
clearTimeout(ts, h) == {t \in ts : t.h # h}

\* A handle not used by any pending timeout.
freshHandle(ts) == CHOOSE h \in 1..(Cardinality(ts) + 1) : \A t \in ts : t.h # h

\* Mutant of resetIdleTimer: the timeout idleTimer names is not cleared.
resetIdleTimerKept(ts, h, t) ==
    [timers |-> ts \cup {[h |-> freshHandle(ts), due |-> t + idleThreshold]},
     idleTimer |-> freshHandle(ts)]

\* resetIdleTimer(): clear the timeout idleTimer names, arm a new one idleThreshold
\* from time t. Yields the pending timeouts and the new value of idleTimer.
resetIdleTimer(ts, h, t) ==
    LET cleared == IF h # 0 THEN clearTimeout(ts, h) ELSE ts
        nh == freshHandle(cleared)
    IN  [timers |-> cleared \cup {[h |-> nh, due |-> t + idleThreshold]},
         idleTimer |-> nh]

\* Mutant of updateActivity: the idle timeout is cleared and not set again.
updateActivityDisarmed(ts, h, t) ==
    [lastActivityTime |-> t,
     timers |-> IF h # 0 THEN clearTimeout(ts, h) ELSE ts,
     idleTimer |-> 0]

\* updateActivity(): lastActivityTime = Date.now(), then resetIdleTimer().
updateActivity(ts, h, t) ==
    LET r == resetIdleTimer(ts, h, t)
    IN  [lastActivityTime |-> t, timers |-> r.timers, idleTimer |-> r.idleTimer]

\* startIdleTracking() only calls resetIdleTimer().
startIdleTracking(ts, h, t) == resetIdleTimer(ts, h, t)

\* Mutant of cleanupTimers: cleanup() forgets to clear the timeout.
cleanupTimersKept(ts, h) == ts

\* The timer part of cleanup(): if (this.idleTimer) clearTimeout(this.idleTimer).
cleanupTimers(ts, h) == IF h # 0 THEN clearTimeout(ts, h) ELSE ts

\* ------------------------------------------------------- delivery loop
\* Mutants of requeue: push instead of unshift; the event put back twice; the
\* event not put back.
requeueTail(q, ev) == Append(q, ev)
requeueTwice(q, ev) == <<ev, ev>> \o q
requeueDrop(q, ev) == q

\* catch branch of processQueue: this.eventQueue.unshift(event).
requeue(q, ev) == <<ev>> \o q

\* Mutant of deliveryLoop: the event is stamped again when it is sent.
RECURSIVE deliveryLoopRestamped(_, _)
deliveryLoopRestamped(q, sid) ==
    IF Len(q) = 0
    THEN [queue |-> q, sent |-> {}, processing |-> FALSE]
    ELSE IF sid # NONE
         THEN [queue |-> Tail(q),
               sent |-> {[session_id |-> sid,
                          event |-> [Head(q) EXCEPT !.timestamp = now],
                          stored |-> FALSE]},
               processing |-> TRUE]
         ELSE deliveryLoopRestamped(Tail(q), sid)

\* Mutant of deliveryLoop: the request carries a sequence number of the client's.
RECURSIVE deliveryLoopNumbered(_, _)
deliveryLoopNumbered(q, sid) ==
    IF Len(q) = 0
    THEN [queue |-> q, sent |-> {}, processing |-> FALSE]
    ELSE IF sid # NONE
         THEN [queue |-> Tail(q),
               sent |-> {[session_id |-> sid,
                          event |-> Head(q) @@ [sequence |-> Head(q).client_id],
                          stored |-> FALSE]},
               processing |-> TRUE]
         ELSE deliveryLoopNumbered(Tail(q), sid)

\* Mutant of deliveryLoop: the head is read (eventQueue[0]) but not shifted.
RECURSIVE deliveryLoopPeek(_, _)
deliveryLoopPeek(q, sid) ==
    IF Len(q) = 0
    THEN [queue |-> q, sent |-> {}, processing |-> FALSE]
    ELSE IF sid # NONE
         THEN [queue |-> q,
               sent |-> {[session_id |-> sid, event |-> Head(q), stored |-> FALSE]},
               processing |-> TRUE]
         ELSE deliveryLoopPeek(Tail(q), sid)

\* Mutant of deliveryLoop: isProcessing is left set when the queue is drained.
RECURSIVE deliveryLoopFlagKept(_, _)
deliveryLoopFlagKept(q, sid) ==
    IF Len(q) = 0
    THEN [queue |-> q, sent |-> {}, processing |-> TRUE]
    ELSE IF sid # NONE
         THEN [queue |-> Tail(q),
               sent |-> {[session_id |-> sid, event |-> Head(q), stored |-> FALSE]},
               processing |-> TRUE]
         ELSE deliveryLoopFlagKept(Tail(q), sid)

\* The while loop of processQueue from its top until it suspends in
\* `await apiService.logEvent(...)` or leaves the loop. An event shifted while
\* sessionId is null is skipped (the `if (event && this.sessionId)` has no else).
\* Yields the queue, the request sent (a set of at most one) and isProcessing.
RECURSIVE deliveryLoop(_, _)
deliveryLoop(q, sid) ==
    IF Len(q) = 0
    THEN [queue |-> q, sent |-> {}, processing |-> FALSE]
    ELSE IF sid # NONE
         THEN [queue |-> Tail(q),
               sent |-> {[session_id |-> sid, event |-> Head(q), stored |-> FALSE]},
               processing |-> TRUE]
         ELSE deliveryLoop(Tail(q), sid)

\* Mutant of processQueue: isProcessing is not set before the loop.
processQueueNoFlag(q, proc, sid) ==
    IF Len(q) = 0 \/ proc
    THEN [queue |-> q, sent |-> {}, processing |-> proc]
    ELSE [deliveryLoop(q, sid) EXCEPT !.processing = FALSE]

\* processQueue() from its entry: the guard, isProcessing = true, then the loop.
processQueue(q, proc, sid) ==
    IF Len(q) = 0 \/ proc
    THEN [queue |-> q, sent |-> {}, processing |-> proc]
    ELSE deliveryLoop(q, sid)

\* Sum of a sequence of numbers.
RECURSIVE SeqSum(_)
SeqSum(s) == IF s = <<>> THEN 0 ELSE Head(s) + SeqSum(Tail(s))

\* ------------------------------------------------------------- Init
Init ==
    /\ sessionId = NONE
    /\ eventQueue = <<>>
    /\ isProcessing = FALSE
    /\ now = 0
    /\ lastActivityTime = 0
    /\ idleTimer = 0
    /\ timers = {}
    /\ inflight = {}
    /\ store = <<>>
    /\ tracked = <<>>
    /\ acked = {}
    /\ failedUnrecorded = {}
    /\ lostAcks = [i \in 1..0 |-> 0]
    /\ abandoned = {}
    /\ phase = "coding"
    /\ submitted_at = UNSET
    /\ serverNow = 0
    /\ submitStep = 0
    /\ questionRequests = <<>>
    /\ lastResult = NONE
    /\ forceEnded = FALSE
    /\ returned = <<>>
    /\ emitting = <<>>
    /\ insights = <<>>
    /\ analysis = <<>>
    /\ analyzed = <<>>
    /\ cells = <<[id |-> 1, code |-> StarterCode, language |-> "sql", output |-> "",
                   error |-> "", executionCount |-> 0, rows |-> FALSE]>>
    /\ globalExecutionCount = 0
    /\ lastCellId = 1
    /\ executing = {}
    /\ resuming = <<>>
    /\ calls = <<>>

\* ------------------------------------------------------------- actions
\* initialize(sessionId)
initialize(s) ==
    LET r == startIdleTracking(timers, idleTimer, now)
    IN  /\ sessionId' = s
        /\ timers' = r.timers
        /\ idleTimer' = r.idleTimer
        /\ UNCHANGED <<eventQueue, isProcessing, lastActivityTime, inflight, store, now,
                       tracked, acked, failedUnrecorded, lostAcks, abandoned>>
        /\ UNCHANGED <<phaseVars, classifyVars, analyzeVars, notebookVars>>

\* Mutant of trackEvent: the event is taken whether a session is bound or not.
trackEventUnguarded(type, event_metadata, ts) ==
    /\ LET ev == [client_id |-> Len(tracked) + 1, type |-> type,
                  timestamp |-> now] @@ event_metadata
           t == updateActivity(ts, idleTimer, now)
           p == IF ~isProcessing
                THEN processQueue(Append(eventQueue, ev), isProcessing, sessionId)
                ELSE [queue |-> Append(eventQueue, ev), sent |-> {},
                      processing |-> isProcessing]
       IN  /\ tracked' = Append(tracked, [event |-> ev, session |-> sessionId])
           /\ lostAcks' = Append(lostAcks, 0)
           /\ lastActivityTime' = t.lastActivityTime
           /\ timers' = t.timers
           /\ idleTimer' = t.idleTimer
           /\ eventQueue' = p.queue
           /\ isProcessing' = p.processing
           /\ inflight' = inflight \cup p.sent
    /\ UNCHANGED <<sessionId, store, now, acked, failedUnrecorded, abandoned>>

\* trackEvent(type, metadata) called with the pending timeouts ts.
trackEvent(type, event_metadata, ts) ==
    \/ /\ sessionId = NONE
       /\ timers' = ts
       /\ UNCHANGED <<sessionId, eventQueue, isProcessing, lastActivityTime, idleTimer,
                      inflight, store, now, tracked, acked, failedUnrecorded, lostAcks,
                      abandoned>>
    \/ /\ sessionId # NONE
       /\ LET ev == [client_id |-> Len(tracked) + 1, type |-> type,
                     timestamp |-> now] @@ event_metadata
              t == updateActivity(ts, idleTimer, now)
              p == IF ~isProcessing
                   THEN processQueue(Append(eventQueue, ev), isProcessing, sessionId)
                   ELSE [queue |-> Append(eventQueue, ev), sent |-> {},
                         processing |-> isProcessing]
          IN  /\ tracked' = Append(tracked, [event |-> ev, session |-> sessionId])
              /\ lostAcks' = Append(lostAcks, 0)
              /\ lastActivityTime' = t.lastActivityTime
              /\ timers' = t.timers
              /\ idleTimer' = t.idleTimer
              /\ eventQueue' = p.queue
              /\ isProcessing' = p.processing
              /\ inflight' = inflight \cup p.sent
       /\ UNCHANGED <<sessionId, store, now, acked, failedUnrecorded, abandoned>>

\* An accepted event counts against the bound max of the behaviour; a call that
\* would exceed it is left out (with it a due timeout, and the clock behind it).
Room(max) == sessionId # NONE => Len(tracked) < max

\* A UI handler calls one of the track* methods.
Track(max) ==
    /\ Room(max)
    /\ \E type \in ActivityTypes : trackEvent(type, <<>>, timers)
    /\ UNCHANGED <<phaseVars, classifyVars, analyzeVars, notebookVars>>

\* The callback of a pending timeout runs: trackEvent('IDLE_GAP', ...).
idleCallback(t) ==
    trackEvent(IDLE_GAP, [idle_duration |-> now - lastActivityTime], timers \ {t})

\* The idle timeout expires.
IdleTimeout(max) ==
    \E t \in timers :
        /\ t.due <= now
        /\ Room(max)
        /\ idleCallback(t)
        /\ UNCHANGED <<phaseVars, classifyVars, analyzeVars, notebookVars>>

\* The idle timeout expires at a moment the clock does not tell: in SpecDelivery
\* the clock stands still and the timeout may expire whenever it is pending.
IdleTimeoutAnyTime(max) ==
    \E t \in timers :
        /\ Room(max)
        /\ idleCallback(t)
        /\ UNCHANGED <<phaseVars, classifyVars, analyzeVars, notebookVars>>

\* cleanup()
cleanup ==
    /\ timers' = cleanupTimers(timers, idleTimer)
    /\ sessionId' = NONE
    /\ eventQueue' = <<>>
    /\ abandoned' = {r.event.client_id : r \in inflight}
    /\ UNCHANGED <<isProcessing, lastActivityTime, idleTimer, inflight, store, now,
                   tracked, acked, failedUnrecorded, lostAcks>>
    /\ UNCHANGED <<phaseVars, classifyVars, analyzeVars, notebookVars>>

\* Mutant of append: the store takes the number from the client's event instead
\* of assigning its own.
appendClientSequence(st, sid, ev) ==
    Append(st, [session_id |-> sid, event |-> ev, sequence |-> ev.client_id])

\* Event Store append(session_id, type, metadata, timestamp): the record gets the
\* next sequence number of its session, assigned at ingestion.
append(st, sid, ev) ==
    Append(st, [session_id |-> sid, event |-> ev,
                sequence |-> Cardinality({i \in DOMAIN st : st[i].session_id = sid}) + 1])

\* The Event Store records the event of a request it received.
StoreAppend ==
    \E r \in inflight :
        /\ ~r.stored
        /\ store' = append(store, r.session_id, r.event)
        /\ inflight' = (inflight \ {r}) \cup {[r EXCEPT !.stored = TRUE]}
        /\ UNCHANGED <<sessionId, eventQueue, isProcessing, lastActivityTime, idleTimer,
                       timers, now, tracked, acked, failedUnrecorded, lostAcks, abandoned>>
        /\ UNCHANGED <<phaseVars, classifyVars, analyzeVars, notebookVars>>

\* The awaited logEvent resolves: processQueue goes on with the next event.
DeliverySuccess ==
    \E r \in inflight :
        /\ r.stored
        /\ LET p == deliveryLoop(eventQueue, sessionId)
           IN  /\ eventQueue' = p.queue
               /\ isProcessing' = p.processing
               /\ inflight' = (inflight \ {r}) \cup p.sent
        /\ acked' = acked \cup {r.event.client_id}
        /\ abandoned' = abandoned \ {r.event.client_id}
        /\ UNCHANGED <<sessionId, lastActivityTime, idleTimer, timers, store, now,
                       tracked, failedUnrecorded, lostAcks>>
        /\ UNCHANGED <<phaseVars, classifyVars, analyzeVars, notebookVars>>

\* The awaited logEvent rejects: the catch branch re-queues the event and breaks.
DeliveryFailure ==
    \E r \in inflight :
        /\ eventQueue' = requeue(eventQueue, r.event)
        /\ isProcessing' = FALSE
        /\ inflight' = inflight \ {r}
        /\ \/ /\ ~r.stored
              /\ failedUnrecorded' = failedUnrecorded \cup {r.event.client_id}
              /\ UNCHANGED lostAcks
           \/ /\ r.stored
              /\ SeqSum(lostAcks) < MaxLostAcks
              /\ lostAcks' = [lostAcks EXCEPT ![r.event.client_id] = @ + 1]
              /\ UNCHANGED failedUnrecorded
        /\ UNCHANGED <<sessionId, lastActivityTime, idleTimer, timers, store, now,
                       tracked, acked, abandoned>>
        /\ UNCHANGED <<phaseVars, classifyVars, analyzeVars, notebookVars>>

\* Time passes; a due timeout runs before the clock moves on.
Tick ==
    /\ now + TickStep <= MaxTime
    /\ \A t \in timers : t.due > now
    /\ now' = now + TickStep
    /\ UNCHANGED <<sessionId, eventQueue, isProcessing, lastActivityTime, idleTimer,
                   timers, inflight, store, tracked, acked, failedUnrecorded, lostAcks,
                   abandoned>>
    /\ UNCHANGED <<phaseVars, classifyVars, analyzeVars, notebookVars>>

\* The client over its whole life: two sessions, the clock and the idle timeout.
Next ==
    \/ \E s \in Sessions : initialize(s)
    \/ Track(MaxTimedEvents)
    \/ IdleTimeout(MaxTimedEvents)
    \/ cleanup
    \/ StoreAppend
    \/ DeliverySuccess
    \/ DeliveryFailure
    \/ Tick

Spec == Init /\ [][Next]_vars

\* The delivery of the events of one session, with more events and the clock
\* left out: the idle timeout may expire at any moment.
NextDelivery ==
    \/ initialize("A")
    \/ Track(MaxEvents)
    \/ IdleTimeoutAnyTime(MaxEvents)
    \/ cleanup
    \/ StoreAppend
    \/ DeliverySuccess
    \/ DeliveryFailure

SpecDelivery == Init /\ [][NextDelivery]_vars

\* The idle timer of the client over two sessions: initialize() at any moment, also
\* twice without cleanup(), with the clock; the delivery loop awaits its first
\* request throughout.
NextTimers ==
    \/ \E s \in Sessions : initialize(s)
    \/ Track(MaxTimedEvents)
    \/ IdleTimeout(MaxTimedEvents)
    \/ cleanup
    \/ Tick

SpecTimers == Init /\ [][NextTimers]_vars

\* The delivery of the events of one session while the clock runs: an event may be
\* sent, and sent again after a failure, later than it was tracked.
NextStamp ==
    \/ sessionId = NONE /\ initialize("A")
    \/ Track(MaxStampEvents)
    \/ IdleTimeout(MaxStampEvents)
    \/ StoreAppend
    \/ DeliverySuccess
    \/ DeliveryFailure
    \/ Tick

SpecStamp == Init /\ [][NextStamp]_vars

\* The client of one session that is initialized and not cleaned up. The runtime
\* runs the callback of a pending timeout, the store records a request it has
\* received, and a recorded request is answered, so these three are fair; the UI
\* handlers are not: the candidate may stop acting at any moment. A failure is left
\* out when the bound on the events leaves no room for the event of a later
\* callback.
NextRetry ==
    \/ sessionId = NONE /\ initialize("A")
    \/ Track(MaxRetryEvents)
    \/ IdleTimeoutAnyTime(MaxRetryEvents)
    \/ StoreAppend
    \/ DeliverySuccess
    \/ Len(tracked) < MaxRetryEvents /\ DeliveryFailure

SpecRetry ==
    /\ Init
    /\ [][NextRetry]_vars
    /\ WF_vars(IdleTimeoutAnyTime(MaxRetryEvents))
    /\ WF_vars(StoreAppend)
    /\ WF_vars(DeliverySuccess)

\* The client bound to one session after the other and the store behind it, the
\* clock left out: the records of two sessions interleave in the store.
NextSessions ==
    \/ \E s \in Sessions : initialize(s)
    \/ Track(MaxSessionEvents)
    \/ IdleTimeoutAnyTime(MaxSessionEvents)
    \/ cleanup
    \/ StoreAppend
    \/ DeliverySuccess
    \/ DeliveryFailure

SpecSessions == Init /\ [][NextSessions]_vars

\* ------------------------------------------------- session phase controller
\* trackPhaseSubmitted(), trackInterviewStarted(), trackInterviewQuestion(...),
\* trackSessionCompleted(): each is one trackEvent call.
trackPhaseSubmitted == trackEvent(PHASE_SUBMITTED, [timestamp |-> now], timers)
trackInterviewStarted == trackEvent(INTERVIEW_STARTED, [timestamp |-> now], timers)

\* Mutant of trackInterviewQuestion: the question event is not handed to trackEvent.
trackInterviewQuestionDropped ==
    UNCHANGED <<sessionId, eventQueue, isProcessing, lastActivityTime, idleTimer, timers,
                inflight, store, now, tracked, acked, failedUnrecorded, lostAcks,
                abandoned>>

trackInterviewQuestion == trackEvent(INTERVIEW_QUESTION, <<>>, timers)
trackSessionCompleted == trackEvent(SESSION_COMPLETED, [timestamp |-> now], timers)

\* Mutants of submitAllowed: submit() accepted in every phase; submit() accepted
\* again during the interview.
submitAllowedAlways(ph) == TRUE
submitAllowedTwice(ph) == ph # "completed"

\* submit(session) is valid only when phase == coding.
submitAllowed(ph) == ph = "coding"

\* Mutant of completeAllowed: complete() accepted in every phase.
completeAllowedAlways(ph, force) == TRUE

\* complete(session) is valid from interview, and from coding when the session is
\* abandoned or force-ended.
completeAllowed(ph, force) == ph = "interview" \/ (ph = "coding" /\ force)

\* submit(session) is called from the workspace of the session the tracker is bound
\* to. Accepted: phase and submitted_at are set, the events follow in the next
\* steps. Otherwise it fails with InvalidTransition and has no effect.
submit ==
    /\ submitStep = 0
    /\ sessionId # NONE
    /\ serverNow < MaxCalls
    /\ serverNow' = serverNow + 1
    /\ IF submitAllowed(phase)
       THEN /\ phase' = "interview"
            /\ submitted_at' = serverNow'
            /\ submitStep' = 1
            /\ UNCHANGED lastResult
       ELSE /\ lastResult' = InvalidTransition
            /\ UNCHANGED <<phase, submitted_at, submitStep>>
    /\ UNCHANGED <<sessionId, eventQueue, isProcessing, lastActivityTime, idleTimer,
                   timers, inflight, store, now, tracked, acked, failedUnrecorded,
                   lostAcks, abandoned, questionRequests, forceEnded>>
    /\ UNCHANGED <<classifyVars, analyzeVars, notebookVars>>

\* submit(), next: PHASE_SUBMITTED is emitted through the client.
submitPhaseSubmitted ==
    /\ submitStep = 1
    /\ trackPhaseSubmitted
    /\ submitStep' = 2
    /\ UNCHANGED <<phase, submitted_at, serverNow, questionRequests, lastResult,
                   forceEnded>>
    /\ UNCHANGED <<classifyVars, analyzeVars, notebookVars>>

\* submit(), next: INTERVIEW_STARTED is emitted through the client.
submitInterviewStarted ==
    /\ submitStep = 2
    /\ trackInterviewStarted
    /\ submitStep' = 3
    /\ UNCHANGED <<phase, submitted_at, serverNow, questionRequests, lastResult,
                   forceEnded>>
    /\ UNCHANGED <<classifyVars, analyzeVars, notebookVars>>

\* submit(), last: the first question is requested from the question-generation
\* service, which answers or fails; the question, or a placeholder for it, is
\* emitted as INTERVIEW_QUESTION, and submit() returns.
submitInterviewQuestion ==
    /\ submitStep = 3
    /\ \E outcome \in {"generated", "failed"} :
          questionRequests' = Append(questionRequests, outcome)
    /\ trackInterviewQuestion
    /\ submitStep' = 0
    /\ lastResult' = "ok"
    /\ UNCHANGED <<phase, submitted_at, serverNow, forceEnded>>
    /\ UNCHANGED <<classifyVars, analyzeVars, notebookVars>>

\* complete(session): accepted, phase is set and SESSION_COMPLETED is emitted
\* through the client; otherwise it fails with InvalidTransition, no effect.
complete(force) ==
    /\ submitStep = 0
    /\ sessionId # NONE
    /\ serverNow < MaxCalls
    /\ serverNow' = serverNow + 1
    /\ forceEnded' = force
    /\ IF completeAllowed(phase, force)
       THEN /\ phase' = "completed"
            /\ lastResult' = "ok"
            /\ trackSessionCompleted
       ELSE /\ lastResult' = InvalidTransition
            /\ UNCHANGED <<phase, sessionId, eventQueue, isProcessing, lastActivityTime,
                           idleTimer, timers, inflight, store, now, tracked, acked,
                           failedUnrecorded, lostAcks, abandoned>>
    /\ UNCHANGED <<submitted_at, submitStep, questionRequests>>
    /\ UNCHANGED <<classifyVars, analyzeVars, notebookVars>>

\* One session from the coding phase on: the workspace binds the tracker, the
\* candidate works, submits and completes, the client delivers. The steps of a
\* running submit() are one handler: nothing else runs between them. The idle
\* timeout and the teardown of the workspace are left out.
NextPhase ==
    \/ submitStep = 0 /\ sessionId = NONE /\ initialize("A")
    \/ submitStep = 0 /\ Track(MaxPhaseEvents)
    \/ submitStep = 0 /\ StoreAppend
    \/ submitStep = 0 /\ DeliverySuccess
    \/ submitStep = 0 /\ DeliveryFailure
    \/ submit
    \/ submitPhaseSubmitted
    \/ submitInterviewStarted
    \/ submitInterviewQuestion
    \/ \E force \in BOOLEAN : complete(force)

SpecPhase == Init /\ [][NextPhase]_vars

\* ------------------------------------------------- SQL complexity tracking
\* trackSQLComplexity(query) is called (after a SQL cell has run): the record is
\* computed; the events of its positive tags follow in the next steps, and the
\* record is what the call returns.
trackSQLComplexity(i) ==
    /\ emitting = <<>>
    /\ LET complexity == classify(QueryTexts[i])
       IN  /\ emitting' = complexityEvents(complexity, QueryTexts[i])
           /\ returned' = Append(returned,
                  [text |-> i, complexity |-> complexity,
                   initialized |-> sessionId # NONE, draining |-> isProcessing])
    /\ UNCHANGED <<sessionId, eventQueue, isProcessing, lastActivityTime, idleTimer,
                   timers, inflight, store, now, tracked, acked, failedUnrecorded,
                   lostAcks, abandoned>>
    /\ UNCHANGED <<phaseVars, analyzeVars>>

\* trackSQLComplexity, next: the trackEvent call of the next positive tag.
trackComplexityEvent ==
    /\ emitting # <<>>
    /\ trackEvent(Head(emitting).type, Head(emitting).event_metadata, timers)
    /\ emitting' = Tail(emitting)
    /\ UNCHANGED returned
    /\ UNCHANGED <<phaseVars, analyzeVars, notebookVars>>

\* trackSQLComplexity is called with one of the texts, on its own.
ClassifyText(i) ==
    /\ Room(MaxClassifyEvents)
    /\ Len(returned) < MaxClassifyCalls
    /\ trackSQLComplexity(i)
    /\ UNCHANGED notebookVars

\* The tracker and the classification of the texts of SQL cells. The steps of a
\* running trackSQLComplexity are one handler: nothing else runs between them.
\* The idle timeout and the teardown of the workspace are left out.
NextClassify ==
    \/ emitting = <<>> /\ initialize("A")
    \/ emitting = <<>> /\ StoreAppend
    \/ emitting = <<>> /\ DeliverySuccess
    \/ emitting = <<>> /\ DeliveryFailure
    \/ \E i \in DOMAIN QueryTexts : ClassifyText(i)
    \/ trackComplexityEvent

SpecClassify == Init /\ [][NextClassify]_vars

\* The tracker called while no session is bound: trackSQLComplexity is called, as
\* by an executeCell whose request returns, before the workspace has initialized
\* the tracker, while it is bound, and after the workspace is torn down with a
\* request of the delivery loop in flight.
NextUnbound ==
    \/ emitting = <<>> /\ sessionId = NONE /\ initialize("A")
    \/ emitting = <<>> /\ sessionId # NONE /\ cleanup
    \/ emitting = <<>> /\ StoreAppend
    \/ emitting = <<>> /\ DeliverySuccess
    \/ emitting = <<>> /\ DeliveryFailure
    \/ \E i \in TypedCodes : ClassifyText(i)
    \/ trackComplexityEvent

SpecUnbound == Init /\ [][NextUnbound]_vars

\* ------------------------------------------------------- behavior analyzer
\* Insights: scores are reals in [0,1], held here in hundredths (0..100).
Dimensions ==
    {"query_quality", "problem_solving", "ai_collaboration", "code_quality",
     "time_management", "communication"}
Recommendations == {"strong_hire", "hire", "maybe", "no_hire"}
ListFields == {"key_strengths", "areas_for_improvement", "red_flags", "standout_moments"}
InsightsFields ==
    {"overall_score", "hire_recommendation", "dimension_scores", "detailed_narrative"}
    \cup ListFields

\* listEvents(session_id): the types of the session's events, in sequence order.
listEvents(st, sid) ==
    LET ofSession(r) == r.session_id = sid
        records == SelectSeq(st, ofSession)
    IN  [n \in 1..Len(records) |-> records[n].event.type]

\* Step 1: the events of the log per category, counted.
ComplexityTypes ==
    {"TABLE_JOINED", "AGGREGATE_USED", "SUBQUERY_USED", "GROUPING_APPLIED",
     "FILTER_APPLIED", "WINDOW_FUNCTION_USED"}
count(event_log, types) == Cardinality({n \in DOMAIN event_log : event_log[n] \in types})

\* A simple ratio as a score: n out of d in hundredths, 0 when there is nothing to
\* divide by, capped at 1.
ratio(n, d) == IF d = 0 THEN 0 ELSE IF n >= d THEN 100 ELSE (n * 100) \div d

\* Step 4, the deterministic rule-based scorer: dimension scores from ratios of the
\* per-category counts, overall_score their mean, hire_recommendation by fixed cut
\* points on overall_score; every field populated.
generate_fallback_insights(event_log) ==
    LET total == Len(event_log)
        scores ==
            [d \in Dimensions |->
                CASE d = "query_quality" ->
                         ratio(count(event_log, ComplexityTypes), count(event_log, {"SQL_RUN"}))
                  [] d = "ai_collaboration" ->
                         ratio(count(event_log, {"AI_RESPONSE"}), count(event_log, {"AI_PROMPT"}))
                  [] d = "time_management" ->
                         100 - ratio(count(event_log, {IDLE_GAP}), total)
                  [] d = "code_quality" -> ratio(count(event_log, {"CODE_EDIT"}), total)
                  [] d = "problem_solving" ->
                         ratio(count(event_log, {PHASE_SUBMITTED, SESSION_COMPLETED}), total)
                  [] d = "communication" ->
                         ratio(count(event_log, {INTERVIEW_QUESTION}), total)]
        overall ==
            (scores["query_quality"] + scores["problem_solving"]
             + scores["ai_collaboration"] + scores["code_quality"]
             + scores["time_management"] + scores["communication"]) \div 6
    IN  [overall_score |-> overall,
         hire_recommendation |->
             IF overall >= 80 THEN "strong_hire"
             ELSE IF overall >= 60 THEN "hire"
             ELSE IF overall >= 40 THEN "maybe" ELSE "no_hire",
         dimension_scores |-> scores,
         key_strengths |-> <<>>,
         areas_for_improvement |-> <<>>,
         red_flags |-> <<>>,
         standout_moments |-> <<>>,
         detailed_narrative |-> "rule-based"]

\* What the Insight-Synthesis service may answer to synthesize(context): a
\* structured result of the Insights shape, a result with a dimension missing, a
\* result with a score out of range, or no result (unavailable, timed out).
SynthesizedInsights ==
    [overall_score |-> 75,
     hire_recommendation |-> "hire",
     dimension_scores |-> [d \in Dimensions |-> 75],
     key_strengths |-> <<"sql">>,
     areas_for_improvement |-> <<>>,
     red_flags |-> <<>>,
     standout_moments |-> <<"join">>,
     detailed_narrative |-> "synthesized"]
SynthesisResponses ==
    {[status |-> "ok", result |-> SynthesizedInsights],
     [status |-> "ok",
      result |-> [SynthesizedInsights EXCEPT
                      !.dimension_scores = [d \in Dimensions \ {"communication"} |-> 75]]],
     [status |-> "ok", result |-> [SynthesizedInsights EXCEPT !.overall_score = 150]],
     [status |-> "unavailable", result |-> [error |-> "unavailable"]],
     [status |-> "timeout", result |-> [error |-> "timeout"]]}

\* Mutant of validate: only the presence of the keys is checked.
validateKeysOnly(result) == DOMAIN result = InsightsFields

\* Step 3, validation of the returned shape: all required keys present, scores
\* numeric in range.
validate(result) ==
    /\ DOMAIN result = InsightsFields
    /\ result.overall_score \in 0..100
    /\ result.hire_recommendation \in Recommendations
    /\ DOMAIN result.dimension_scores = Dimensions
    /\ \A d \in Dimensions : result.dimension_scores[d] \in 0..100

\* Steps 3 and 4: the synthesized result when the service answered with a valid
\* one, the rule-based result in every other case.
generate_insights(event_log, response) ==
    IF response.status = "ok" /\ validate(response.result)
    THEN response.result
    ELSE generate_fallback_insights(event_log)

\* Mutant of storeInsights: on re-analysis the dimension scores of the earlier
\* record are kept.
storeInsightsMerged(previous, result) ==
    IF previous = <<>> THEN <<result>>
    ELSE <<[result EXCEPT !.dimension_scores = previous[1].dimension_scores]>>

\* Session.insights is overwritten with the record the analysis produced.
storeInsights(previous, result) == <<result>>

\* Mutant of retryInline: an answer that is not "ok" is followed by another call.
retryInlineOnFailure(response) == response.status # "ok"

\* Whether the analyzer calls the synthesis service again within the same
\* analysis after this answer: never, retries are an external concern.
retryInline(response) == FALSE

\* analyze(session, event_log), first part: the log is read and the context sent
\* to the synthesis service; the analysis is suspended until the service answers
\* or the timeout expires.
analyze_session(s) ==
    /\ submitStep = 0
    /\ analysis = <<>>
    /\ serverNow < MaxCalls
    /\ serverNow' = serverNow + 1
    /\ analysis' = <<listEvents(store, s), 1>>
    /\ UNCHANGED <<sessionId, eventQueue, isProcessing, lastActivityTime, idleTimer,
                   timers, inflight, store, now, tracked, acked, failedUnrecorded,
                   lostAcks, abandoned>>
    /\ UNCHANGED <<phase, submitted_at, submitStep, questionRequests, lastResult,
                   forceEnded>>
    /\ UNCHANGED <<classifyVars, insights, analyzed, notebookVars>>

\* analyze(session, event_log), second part: the service has answered, failed or
\* timed out; the Insights record is produced, stored in the session and returned.
analyze_sessionReturn ==
    /\ submitStep = 0
    /\ analysis # <<>>
    /\ \E response \in SynthesisResponses :
          IF retryInline(response)
          THEN /\ analysis' = <<analysis[1], analysis[2] + 1>>
               /\ UNCHANGED <<insights, analyzed>>
          ELSE LET result == generate_insights(analysis[1], response)
               IN  /\ insights' = storeInsights(insights, result)
                   /\ analyzed' = <<[event_log |-> analysis[1], response |-> response,
                                     result |-> result, previous |-> insights,
                                     invocations |-> analysis[2]]>>
                   /\ analysis' = <<>>
    /\ UNCHANGED <<sessionId, eventQueue, isProcessing, lastActivityTime, idleTimer,
                   timers, inflight, store, now, tracked, acked, failedUnrecorded,
                   lostAcks, abandoned>>
    /\ UNCHANGED <<phaseVars, classifyVars, notebookVars>>

\* One session with its recruiter: the candidate submits and completes as in
\* NextPhase, the client delivers the events of these transitions, and the
\* recruiter has the session analyzed, several times, at any moment. The
\* candidate's other activity is left out.
NextAnalyze ==
    \/ submitStep = 0 /\ sessionId = NONE /\ initialize("A")
    \/ submitStep = 0 /\ StoreAppend
    \/ submitStep = 0 /\ DeliverySuccess
    \/ submitStep = 0 /\ DeliveryFailure
    \/ submit
    \/ submitPhaseSubmitted
    \/ submitInterviewStarted
    \/ submitInterviewQuestion
    \/ \E force \in BOOLEAN : complete(force)
    \/ analyze_session("A")
    \/ analyze_sessionReturn

SpecAnalyze == Init /\ [][NextAnalyze]_vars

\* ------------------------------------------------------------- notebook
\* A cell: executionCount 0 stands for null, rows FALSE for rows and columnNames
\* undefined.
\* cells.map(c => c.id === id ? { ...c, ...patch } : c)
mapCell(cs, id, patch) ==
    [k \in DOMAIN cs |-> IF cs[k].id = id THEN patch @@ cs[k] ELSE cs[k]]

\* cells.filter(c => c.id !== id)
filterCell(cs, id) == SelectSeq(cs, LAMBDA c : c.id # id)

\* code.split('\n').length
lines(code) == Cardinality(occurrences(code, <<"\n">>)) + 1

trackCodeEdit(code, language) ==
    trackEvent("CODE_EDIT",
               [code_length |-> Len(QueryTexts[code]), language |-> language,
                lines |-> lines(QueryTexts[code])], timers)

trackCodeRun(code, language) ==
    trackEvent("CODE_RUN",
               [code_length |-> Len(QueryTexts[code]), language |-> language,
                lines |-> lines(QueryTexts[code])], timers)

trackRunResult(success, error) ==
    trackEvent("RUN_RESULT", [success |-> success, has_error |-> error # ""], timers)

trackError(error, code) ==
    trackEvent("ERROR_OCCURRED", [error_message |-> error, code_snippet |-> code], timers)

\* The notebook is shown and no handler is running: a UI handler may start.
Idle == sessionId # NONE /\ resuming = <<>> /\ emitting = <<>>

\* addCell(afterId); after = 0 for the call without afterId.
addCell(after) ==
    /\ Idle
    /\ lastCellId < MaxCellIds
    /\ lastCellId' = lastCellId + 1
    /\ LET newCell == [id |-> lastCellId', code |-> NewCellCode, language |-> "sql",
                       output |-> "", error |-> "", executionCount |-> 0,
                       rows |-> FALSE]
       IN  \/ /\ after = 0
              /\ cells' = Append(cells, newCell)
           \/ \E index \in DOMAIN cells :
                 /\ cells[index].id = after
                 /\ cells' = SubSeq(cells, 1, index) \o <<newCell>>
                              \o SubSeq(cells, index + 1, Len(cells))
    /\ UNCHANGED <<globalExecutionCount, executing, resuming, calls>>
    /\ UNCHANGED <<sessionId, eventQueue, isProcessing, lastActivityTime, idleTimer,
                   timers, inflight, store, now, tracked, acked, failedUnrecorded,
                   lostAcks, abandoned>>
    /\ UNCHANGED <<phaseVars, classifyVars, analyzeVars>>

\* deleteCell(id)
deleteCell(id) ==
    /\ Idle
    /\ \E k \in DOMAIN cells : cells[k].id = id
    /\ IF Len(cells) > 1
       THEN cells' = filterCell(cells, id)
       ELSE UNCHANGED cells
    /\ UNCHANGED <<globalExecutionCount, lastCellId, executing, resuming, calls>>
    /\ UNCHANGED <<sessionId, eventQueue, isProcessing, lastActivityTime, idleTimer,
                   timers, inflight, store, now, tracked, acked, failedUnrecorded,
                   lostAcks, abandoned>>
    /\ UNCHANGED <<phaseVars, classifyVars, analyzeVars>>

\* CODE_EDIT events tracked so far.
Edits == Cardinality({k \in DOMAIN tracked : tracked[k].event.type = "CODE_EDIT"})

\* updateCellCode(id, code)
updateCellCode(id, code) ==
    /\ Idle
    /\ Edits < MaxEdits
    /\ \E k \in DOMAIN cells :
          /\ cells[k].id = id
          /\ trackCodeEdit(code, cells[k].language)
    /\ cells' = mapCell(cells, id, [code |-> code])
    /\ UNCHANGED <<globalExecutionCount, lastCellId, executing, resuming, calls>>
    /\ UNCHANGED <<phaseVars, classifyVars, analyzeVars>>

\* An entry of the history of calls: the execution count of the executeCell call,
\* what it called, the cell it runs, and what its request gave, if it has returned.
called(execution, call, id, outcome) ==
    [execution |-> execution, call |-> call, id |-> id, outcome |-> outcome]

\* executeCell(id), up to the await of the execution request. The call keeps the
\* cell and the cells of the render it was started from.
executeCell(id) ==
    /\ Idle
    /\ globalExecutionCount < MaxExecutions
    /\ \E k \in DOMAIN cells :
          /\ cells[k].id = id
          /\ trackCodeRun(cells[k].code, cells[k].language)
          /\ executing' = executing \cup
                 {[id |-> id, cell |-> cells[k], cells |-> cells,
                   executionCount |-> globalExecutionCount + 1]}
    /\ globalExecutionCount' = globalExecutionCount + 1
    /\ cells' = mapCell(cells, id,
                        [executionCount |-> globalExecutionCount + 1,
                         output |-> "Executing...", error |-> "", rows |-> FALSE])
    /\ calls' = calls \o <<called(globalExecutionCount + 1, "trackCodeRun", id, "awaited"),
                           called(globalExecutionCount + 1, "axios.post", id, "awaited")>>
    /\ UNCHANGED <<lastCellId, resuming>>
    /\ UNCHANGED <<phaseVars, classifyVars, analyzeVars>>

\* What the execution request gave: a response with rows, a response without, or
\* an exception.
Outcomes == {"rows", "output", "failed"}

\* Mutant of afterResponse: the result is tracked before the rest.
afterResponseResultFirst(language, outcome) ==
    IF outcome = "failed"
    THEN <<"trackRunResult", "trackError">>
    ELSE <<"trackRunResult">>
         \o (IF language = "sql" THEN <<"trackSQLComplexity">> ELSE <<>>)

\* The tracker calls executeCell makes after the await, in the order of the code:
\* the try block after a response, the catch block after an exception.
afterResponse(language, outcome) ==
    IF outcome = "failed"
    THEN <<"trackError", "trackRunResult">>
    ELSE (IF language = "sql" THEN <<"trackSQLComplexity">> ELSE <<>>)
         \o <<"trackRunResult">>

\* The cell as the response or the exception leaves it.
completed(x, outcome) ==
    mapCell(x.cells, x.id,
            [output |-> IF outcome = "failed" THEN "" ELSE "output",
             error |-> IF outcome = "failed" THEN "errorMessage" ELSE "",
             executionCount |-> x.executionCount,
             rows |-> (x.cell.language = "sql" /\ outcome = "rows")])

\* executeCell after the await: the next tracker call of the call x, with the
\* setCells that precedes it in the code.
executeCellCall(x, outcome, call) ==
    \/ /\ call = "trackSQLComplexity"
       /\ trackSQLComplexity(x.cell.code)
       /\ UNCHANGED cells
    \/ /\ call = "trackError"
       /\ cells' = completed(x, outcome)
       /\ trackError("errorMessage", x.cell.code)
       /\ UNCHANGED classifyVars
    \/ /\ call = "trackRunResult"
       /\ IF outcome = "failed" THEN UNCHANGED cells ELSE cells' = completed(x, outcome)
       /\ trackRunResult(outcome # "failed", IF outcome = "failed" THEN "errorMessage" ELSE "")
       /\ UNCHANGED classifyVars

\* The execution request of a suspended executeCell returns or fails, and the call
\* runs on to its first tracker call.
executeCellResponse ==
    /\ resuming = <<>>
    /\ emitting = <<>>
    /\ \E x \in executing, outcome \in Outcomes :
          LET todo == afterResponse(x.cell.language, outcome)
          IN  /\ executeCellCall(x, outcome, Head(todo))
              /\ executing' = executing \ {x}
              /\ resuming' = IF Tail(todo) = <<>> THEN <<>>
                              ELSE <<[call |-> x, outcome |-> outcome, todo |-> Tail(todo)]>>
              /\ calls' = Append(calls, called(x.executionCount, Head(todo), x.id, outcome))
    /\ UNCHANGED <<globalExecutionCount, lastCellId>>
    /\ UNCHANGED <<phaseVars, analyzeVars>>

\* The resumed executeCell makes its next tracker call; after the last it returns.
executeCellNext ==
    /\ resuming # <<>>
    /\ emitting = <<>>
    /\ LET r == resuming[1]
       IN  /\ executeCellCall(r.call, r.outcome, Head(r.todo))
           /\ resuming' = IF Tail(r.todo) = <<>> THEN <<>>
                           ELSE <<[r EXCEPT !.todo = Tail(r.todo)]>>
           /\ calls' = Append(calls, called(r.call.executionCount, Head(r.todo),
                                             r.call.id, r.outcome))
    /\ UNCHANGED <<globalExecutionCount, lastCellId, executing>>
    /\ UNCHANGED <<phaseVars, analyzeVars>>

\* The notebook of one session: the candidate adds, deletes, edits and runs cells
\* while earlier runs are awaited. The steps of a resumed executeCell are one
\* handler: nothing else runs between them. Delivery, the idle timeout and the
\* teardown of the workspace are left out.
NextNotebook ==
    \/ sessionId = NONE /\ initialize("A")
    \/ \E after \in {0} \cup {cells[k].id : k \in DOMAIN cells} : addCell(after)
    \/ \E id \in {cells[k].id : k \in DOMAIN cells} : deleteCell(id)
    \/ \E id \in {cells[k].id : k \in DOMAIN cells}, code \in TypedCodes :
          updateCellCode(id, code)
    \/ \E id \in {cells[k].id : k \in DOMAIN cells} : executeCell(id)
    \/ executeCellResponse
    \/ trackComplexityEvent
    \/ executeCellNext

SpecNotebook == Init /\ [][NextNotebook]_vars

\* The runs of the notebook alone: the candidate edits and runs cells while
\* earlier runs are awaited; no cell is added or deleted.
NextExecute ==
    \/ sessionId = NONE /\ initialize("A")
    \/ \E id \in {cells[k].id : k \in DOMAIN cells}, code \in TypedCodes :
          updateCellCode(id, code)
    \/ \E id \in {cells[k].id : k \in DOMAIN cells} : executeCell(id)
    \/ executeCellResponse
    \/ trackComplexityEvent
    \/ executeCellNext

SpecExecute == Init /\ [][NextExecute]_vars

\* ------------------------------------------------------------ properties
\* Client ids of the events the client holds: pending, or awaited by the loop.
Queued == {eventQueue[i].client_id : i \in DOMAIN eventQueue}
InFlight == {r.event.client_id : r \in inflight}
Held == Queued \cup InFlight

\* Positions of the store's records of the event a client id names.
Copies(id) == {i \in DOMAIN store : store[i].event.client_id = id}

\* Client ids are given in enqueue order, so the store is in enqueue order when
\* its client ids never decrease.
InEnqueueOrder ==
    \A i, j \in DOMAIN store :
        i < j => store[i].event.client_id <= store[j].event.client_id

\* C1: the store records the events of the client in the order trackEvent enqueued
\* them, in every interleaving of tracks, successes, failures and retries: no
\* record of an event precedes a record of an event enqueued earlier. (It holds
\* with cleanup() and initialize() in the interleaving as well.)
C1_FifoDelivery == InEnqueueOrder

\* C1 witness: two events in the store, the second tracked while the first was
\* being delivered, after a failed attempt and its retry.
C1_Witness ==
    /\ Len(store) >= 2
    /\ store[1].event.client_id < store[Len(store)].event.client_id
    /\ failedUnrecorded # {}
    /\ \E id \in DOMAIN lostAcks : lostAcks[id] > 0

\* C2: an event with a failed attempt that the store did not record, and a later
\* attempt that succeeded, is in the store exactly once, after every
\* earlier-enqueued event and before every later-enqueued one.
C2_OneCopyAfterRetry ==
    \A id \in acked \cap failedUnrecorded :
        lostAcks[id] = 0 =>
            /\ Cardinality(Copies(id)) = 1
            /\ \A p \in Copies(id) : \A k \in DOMAIN store :
                  /\ store[k].event.client_id < id => k < p
                  /\ store[k].event.client_id > id => k > p

\* C2 witness: such an event is in the store between an earlier and a later one.
C2_Witness ==
    \E id \in acked \cap failedUnrecorded :
        /\ lostAcks[id] = 0
        /\ \E k \in DOMAIN store : store[k].event.client_id < id
        /\ \E k \in DOMAIN store : store[k].event.client_id > id

\* C3: an accepted event is held by the client from trackEvent on, and stops being
\* held only by a successful delivery or by cleanup().
C3_NeverLost ==
    [][/\ Len(tracked') > Len(tracked) => Len(tracked') \in Held'
       /\ \A id \in Held : id \notin Held' => (id \in acked' \/ cleanup)]_vars

\* C3 witness: an event whose delivery failed is back in the pending queue.
C3_Witness ==
    \E id \in failedUnrecorded : id \in Queued /\ id \notin acked

\* C4: at most one logEvent request is in flight.
C4_SingleLoop == Cardinality(inflight) <= 1

\* C4 witness: a timer-driven IDLE_GAP and a UI event were tracked while a request
\* was in flight, and wait in the queue.
C4_Witness ==
    /\ Cardinality(inflight) = 1
    /\ \E i \in DOMAIN eventQueue : eventQueue[i].type = IDLE_GAP
    /\ isProcessing

\* C5 as stated: an event whose delivery the store recorded while the client saw a
\* failure is not recorded a second time.
C5_NoSecondCopy ==
    \A id \in DOMAIN lostAcks : lostAcks[id] > 0 => Cardinality(Copies(id)) <= 1

\* C5 amended: the retry after a lost acknowledgement is recorded again; the store
\* holds at most one record of an event more than the event has lost
\* acknowledgements, the records of one event are equal and consecutive.
C5_AtLeastOnce ==
    \A id \in DOMAIN lostAcks :
        /\ Cardinality(Copies(id)) <= 1 + lostAcks[id]
        /\ \A i, j \in Copies(id) :
              /\ store[i].event = store[j].event
              /\ \A k \in DOMAIN store : (i < k /\ k < j) => k \in Copies(id)

\* C5 witness: one lost acknowledgement, two records of the event.
C5_Witness ==
    \E id \in DOMAIN lostAcks : lostAcks[id] = 1 /\ Cardinality(Copies(id)) = 2

\* C6: every record of the store carries the session id the client was bound to
\* when the event was tracked.
C6_NoCrossSessionLeak ==
    \A i \in DOMAIN store :
        store[i].session_id = tracked[store[i].event.client_id].session

\* C7: when initialize() returns the pending queue is empty and lastActivityTime
\* is the instant of the call.
C7_InitializeResets ==
    [][(\E s \in Sessions : initialize(s)) =>
          (eventQueue' = <<>> /\ lastActivityTime' = now')]_vars

\* C8: the store records no event that was tracked before a cleanup() after that
\* cleanup() has returned.
C8_NoDeliveryAfterCleanup ==
    [][Len(store') > Len(store) =>
          store'[Len(store')].event.client_id \notin abandoned]_vars

\* C9: while the client is unbound (from cleanup() to the next initialize()) the
\* idle callback does not run and trackEvent accepts no event, so no IDLE_GAP is
\* generated or enqueued.
C9_CleanupCancelsIdle ==
    [][sessionId = NONE =>
          (~(\E t \in timers : idleCallback(t)) /\ tracked' = tracked)]_vars

\* C9 witness: cleanup() has run on a client whose last tracked event had re-armed
\* the timeout after an IDLE_GAP; no timeout is pending.
C9_Witness ==
    /\ sessionId = NONE
    /\ idleTimer # 0
    /\ timers = {}
    /\ Len(tracked) >= 2
    /\ tracked[1].event.type = IDLE_GAP
    /\ tracked[Len(tracked)].event.type # IDLE_GAP

\* C10: no two IDLE_GAP events are enqueued without a non-synthetic event tracked
\* between them.
C10_OneIdleGapPerInterval ==
    \A i \in DOMAIN tracked :
        (i < Len(tracked) /\ tracked[i].session = tracked[i + 1].session) =>
            ~(tracked[i].event.type = IDLE_GAP /\ tracked[i + 1].event.type = IDLE_GAP)

\* The instant of the last real activity before the i-th tracked event: the capture
\* time of the latest non-synthetic event tracked before it, and the construction
\* of the tracker (lastActivityTime = Date.now(), instant 0) when there is none.
LastRealActivity(i) ==
    LET real == {j \in 1..(i - 1) : tracked[j].event.type # IDLE_GAP}
    IN  IF real = {} THEN 0
        ELSE tracked[CHOOSE j \in real : \A k \in real : k <= j].event.timestamp

\* The instant of the last trackEvent call accepted before the i-th tracked event.
LastTrack(i) == IF i = 1 THEN 0 ELSE tracked[i - 1].event.timestamp

\* C11, first half: an IDLE_GAP is enqueued only when idleThreshold has elapsed
\* since the last accepted trackEvent call.
C11_IdleOnlyAfterThreshold ==
    \A i \in DOMAIN tracked :
        tracked[i].event.type = IDLE_GAP =>
            tracked[i].event.timestamp - LastTrack(i) >= idleThreshold

\* C11: an IDLE_GAP is enqueued only when idleThreshold has elapsed since the last
\* trackEvent call, and its idle_duration is the time elapsed since the last real
\* activity.
C11_IdleDurationIsElapsed ==
    /\ C11_IdleOnlyAfterThreshold
    /\ \A i \in DOMAIN tracked :
          tracked[i].event.type = IDLE_GAP =>
              tracked[i].event.idle_duration
                  = tracked[i].event.timestamp - LastRealActivity(i)

\* C12: within every session the sequence numbers of the store's records strictly
\* increase in append order, so no two records of a session share a number,
\* whatever failures and retries the client went through.
C12_SequenceStrictlyIncreasing ==
    \A i, j \in DOMAIN store :
        (i < j /\ store[i].session_id = store[j].session_id) =>
            store[i].sequence < store[j].sequence

\* C12 witness: the store holds records of two sessions, one of them the second
\* record of an event that was retried after a lost acknowledgement.
C12_Witness ==
    /\ \E i, j \in DOMAIN store : store[i].session_id # store[j].session_id
    /\ \E i, j \in DOMAIN store :
          /\ i < j
          /\ store[i].event.client_id = store[j].event.client_id
          /\ store[i].session_id = store[j].session_id
          /\ lostAcks[store[i].event.client_id] > 0

\* Position of a phase in the order coding < interview < completed.
PhaseRank(ph) == CHOOSE i \in DOMAIN Phases : Phases[i] = ph

\* C13: under every sequence of submit() and complete() calls, accepted or
\* rejected, phase never moves to a smaller value of coding < interview <
\* completed, and never leaves completed.
C13_PhaseMonotonic ==
    [][/\ PhaseRank(phase) <= PhaseRank(phase')
       /\ phase = "completed" => phase' = "completed"]_vars

\* C13 witness: the session is completed after a submit() and a complete(), and a
\* further call has been rejected.
C13_Witness ==
    /\ phase = "completed"
    /\ submitted_at # UNSET
    /\ serverNow >= 3
    /\ lastResult = InvalidTransition

\* C14: submit() called while phase is interview or completed returns
\* InvalidTransition and leaves phase, submitted_at and the event log as they are:
\* the client is handed no event (nothing tracked, queued, sent or stored), no
\* emission is started and the question service is not called.
C14_SubmitRejected ==
    [][(submit /\ phase # "coding") =>
          /\ lastResult' = InvalidTransition
          /\ UNCHANGED <<phase, submitted_at, submitStep, questionRequests>>
          /\ UNCHANGED <<tracked, eventQueue, inflight, store>>]_vars

\* C14 witness: a submit() during the interview has been rejected, after the
\* accepted one had emitted its events.
C14_Witness ==
    /\ lastResult = InvalidTransition
    /\ phase = "interview"
    /\ submitStep = 0
    /\ serverNow = 2
    /\ tracked # <<>>
    /\ tracked[Len(tracked)].event.type = INTERVIEW_QUESTION

\* Client ids of the tracked events of a type, and of the store's records.
TrackedOf(type) == {i \in DOMAIN tracked : tracked[i].event.type = type}
Stored == {store[i].event.client_id : i \in DOMAIN store}

\* C15: an accepted submit() leaves phase = interview and hands the client
\* PHASE_SUBMITTED, INTERVIEW_STARTED, INTERVIEW_QUESTION one after the other; the
\* store records them in that order after every event tracked before them, and
\* once the client holds nothing any more the log ends with the three of them
\* (the records of one event, repeated by a retry, taken as one).
C15_SubmitLogOrder ==
    \A p \in TrackedOf(PHASE_SUBMITTED) :
        /\ submitStep = 0 =>
              /\ Len(tracked) >= p + 2
              /\ tracked[p + 1].event.type = INTERVIEW_STARTED
              /\ tracked[p + 2].event.type = INTERVIEW_QUESTION
        /\ (submitStep = 0 /\ Len(tracked) = p + 2) => phase = "interview"
        /\ \A i, j \in DOMAIN store :
              (store[i].event.client_id < store[j].event.client_id
                  /\ store[j].event.client_id <= p + 2) => i < j
        /\ (submitStep = 0 /\ Len(tracked) = p + 2 /\ Held = {}) =>
              /\ {p, p + 1, p + 2} \subseteq Stored
              /\ store[Len(store)].event.type = INTERVIEW_QUESTION

\* C15 witness: the log ends with the three events after an event of the coding
\* phase that was pending, after a failed attempt, when submit() ran: it was
\* delivered by the loop that PHASE_SUBMITTED started.
C15_Witness ==
    \E p \in TrackedOf(PHASE_SUBMITTED) :
        /\ p > 1
        /\ submitStep = 0 /\ Len(tracked) = p + 2 /\ Held = {}
        /\ {1, p, p + 1, p + 2} \subseteq Stored
        /\ p - 1 \in failedUnrecorded

C17_NoCodingEventAfterFlip ==
    [][(Len(store') > Len(store) /\ phase = "interview") =>
          \E q \in TrackedOf(PHASE_SUBMITTED) :
              q <= store'[Len(store')].event.client_id]_vars

\* C18: when the question service fails during submit(), submit() still returns
\* ok with phase = interview and submitted_at set, and an INTERVIEW_QUESTION event
\* (the placeholder) is enqueued right after INTERVIEW_STARTED.
C18_QuestionFailureAbsorbed ==
    [][(submitInterviewQuestion
           /\ questionRequests'[Len(questionRequests')] = "failed") =>
          /\ lastResult' = "ok"
          /\ phase' = "interview"
          /\ submitted_at' # UNSET
          /\ Len(tracked') = Len(tracked) + 1
          /\ tracked[Len(tracked)].event.type = INTERVIEW_STARTED
          /\ tracked'[Len(tracked')].event.type = INTERVIEW_QUESTION
          /\ Len(tracked') \in Held']_vars

\* C18 witness: the question service has failed, submit() has returned ok and the
\* store has recorded the INTERVIEW_QUESTION after the INTERVIEW_STARTED.
C18_Witness ==
    /\ questionRequests = <<"failed">>
    /\ lastResult = "ok"
    /\ phase = "interview"
    /\ Len(store) >= 2
    /\ store[Len(store) - 1].event.type = INTERVIEW_STARTED
    /\ store[Len(store)].event.type = INTERVIEW_QUESTION

\* The records trackSQLComplexity returned for the i-th text, with the state of
\* the tracker at each call.
ReturnedFor(i) == {returned[k] : k \in {n \in DOMAIN returned : returned[n].text = i}}

C20_ExampleQueries ==
    /\ \A r \in ReturnedFor(1) :
          r.complexity = [has_join |-> FALSE, has_aggregate |-> FALSE,
                          has_subquery |-> FALSE, has_groupby |-> FALSE,
                          has_where |-> FALSE, has_window |-> FALSE]
    /\ \A r \in ReturnedFor(2) :
          /\ r.complexity.has_join
          /\ r.complexity.has_aggregate
          /\ r.complexity.has_groupby
          /\ ~r.complexity.has_subquery

\* C20 witness: both queries have been classified, and the events of the second
\* have been tracked.
C20_Witness ==
    /\ QueryTexts[1] = SimpleQuery /\ ReturnedFor(1) # {}
    /\ QueryTexts[2] = JoinGroupQuery /\ ReturnedFor(2) # {}
    /\ TrackedOf("TABLE_JOINED") # {}
    /\ TrackedOf("GROUPING_APPLIED") # {}

\* The tags in the order of the six events, each with the type of its event.
TagEvents ==
    <<[tag |-> "has_join", type |-> "TABLE_JOINED"],
      [tag |-> "has_aggregate", type |-> "AGGREGATE_USED"],
      [tag |-> "has_subquery", type |-> "SUBQUERY_USED"],
      [tag |-> "has_groupby", type |-> "GROUPING_APPLIED"],
      [tag |-> "has_where", type |-> "FILTER_APPLIED"],
      [tag |-> "has_window", type |-> "WINDOW_FUNCTION_USED"]>>

\* One entry per positive tag of a call (its record in returned), in the order of
\* TagEvents.
OfText(types, text) == [n \in 1..Len(types) |-> [type |-> types[n].type, text |-> text]]
PositiveTags(call) ==
    LET positive(te) == call.complexity[te.tag]
    IN  OfText(SelectSeq(TagEvents, positive), call.text)

\* The events the first k calls are to enqueue: those of every call, or (onlyBound)
\* those of the calls made on an initialized tracker.
RECURSIVE ExpectedEvents(_, _)
ExpectedEvents(k, onlyBound) ==
    IF k = 0 THEN <<>>
    ELSE ExpectedEvents(k - 1, onlyBound)
         \o (IF onlyBound /\ ~returned[k].initialized THEN <<>>
             ELSE PositiveTags(returned[k]))

\* The enqueued event carries the expected type and the first 100 characters of
\* its text (the whole text when it is shorter).
ExcerptOf(ev, type, text) ==
    /\ ev.type = type
    /\ Len(ev.query_snippet) <= 100
    /\ Len(ev.query_snippet) = (IF Len(text) < 100 THEN Len(text) ELSE 100)
    /\ ev.query_snippet = SubSeq(text, 1, Len(ev.query_snippet))

\* The events enqueued so far, with those the running call has still to track, are
\* the expected ones.
Enqueued(expected, remaining) ==
    /\ Len(tracked) + remaining = Len(expected)
    /\ \A n \in DOMAIN tracked :
          ExcerptOf(tracked[n].event, expected[n].type, QueryTexts[expected[n].text])
EnqueuedAsExpected(onlyBound) ==
    Enqueued(ExpectedEvents(Len(returned), onlyBound),
             IF onlyBound /\ returned # <<>> /\ ~returned[Len(returned)].initialized
             THEN 0 ELSE Len(emitting))

\* C21 as stated: every call of trackSQLComplexity enqueues exactly one event per
\* positive tag and none for a negative tag, in the order TABLE_JOINED,
\* AGGREGATE_USED, SUBQUERY_USED, GROUPING_APPLIED, FILTER_APPLIED,
\* WINDOW_FUNCTION_USED, each with an excerpt of at most 100 characters of the text;
\* a text without a pattern enqueues nothing.
C21_OnePerPositiveTag == EnqueuedAsExpected(FALSE)

\* C21 amended: the same for the calls made on an initialized tracker; a call made
\* on a tracker that is not initialized enqueues nothing, whatever its tags.
C21_OnePerPositiveTagWhenBound == EnqueuedAsExpected(TRUE)

\* C21 witness: the query with three positive tags and the text longer than 100
\* characters have both been classified on an initialized tracker and all their
\* events enqueued, the long text's excerpt being 100 characters, after a call
\* with positive tags on a tracker that was not initialized.
C21_Witness ==
    /\ emitting = <<>>
    /\ \E k \in DOMAIN returned : ~returned[k].initialized /\ returned[k].complexity.has_join
    /\ \E k \in DOMAIN returned : returned[k].initialized /\ returned[k].text = 2
    /\ \E k \in DOMAIN returned : returned[k].initialized /\ returned[k].text = 6
    /\ QueryTexts[6] = LongQuery /\ Len(LongQuery) > 100
    /\ \E n \in TrackedOf("FILTER_APPLIED") : Len(tracked[n].event.query_snippet) = 100
    /\ \E n \in DOMAIN tracked :
          /\ n + 2 \in DOMAIN tracked
          /\ tracked[n].event.type = "TABLE_JOINED"
          /\ tracked[n + 1].event.type = "AGGREGATE_USED"
          /\ tracked[n + 2].event.type = "GROUPING_APPLIED"

\* The six tags of a complexity record.
Tags == {TagEvents[n].tag : n \in DOMAIN TagEvents}

\* C22: trackSQLComplexity returns a full record for every text, the empty text and
\* the text that is not SQL included: every record returned has the six tags, each
\* a boolean, and the record of the empty text has every tag false.
C22_ClassifierTotal ==
    /\ \A k \in DOMAIN returned :
          /\ DOMAIN returned[k].complexity = Tags
          /\ \A tag \in Tags : returned[k].complexity[tag] \in BOOLEAN
    /\ \A k \in DOMAIN returned :
          QueryTexts[returned[k].text] = <<>>
              => \A tag \in Tags : ~returned[k].complexity[tag]

\* C22 witness: the empty text and the text that is not SQL have both been
\* classified, the empty text on an initialized tracker.
C22_Witness ==
    /\ \E k \in DOMAIN returned :
          QueryTexts[returned[k].text] = <<>> /\ returned[k].initialized
    /\ \E k \in DOMAIN returned : QueryTexts[returned[k].text] = ProseText

\* A fully populated Insights record: every field present, overall_score and the
\* score of every dimension within [0,1], a recommendation of the fixed set, the
\* four list fields sequences.
FullyPopulated(r) ==
    /\ DOMAIN r = InsightsFields
    /\ r.overall_score \in 0..100
    /\ r.hire_recommendation \in Recommendations
    /\ DOMAIN r.dimension_scores = Dimensions
    /\ \A d \in Dimensions : r.dimension_scores[d] \in 0..100
    /\ \A f \in ListFields : DOMAIN r[f] = 1..Len(r[f])

\* The synthesis service answered with a usable result.
Succeeded(response) == response.status = "ok" /\ FullyPopulated(response.result)

AttemptFails ==
    \/ failedUnrecorded' # failedUnrecorded
    \/ Len(lostAcks') = Len(lostAcks) /\ lostAcks' # lostAcks

\* C25: when a delivery attempt fails, the failed event is put back at the head of
\* the pending queue, the other pending events keeping their order behind it, the
\* loop stops without attempting anything else, and every later attempt takes the
\* head of the pending queue, so none overtakes the failed event while it is
\* pending.
C25_FailedBackAtHead ==
    [][/\ AttemptFails =>
             \E r \in inflight :
                 /\ eventQueue' = <<r.event>> \o eventQueue
                 /\ inflight' = inflight \ {r}
                 /\ ~isProcessing'
       /\ \A r \in inflight' \ inflight :
             (~r.stored /\ eventQueue # <<>>) => r.event = Head(eventQueue)]_vars

\* C25 witness: an event whose attempt failed is at the head of the pending queue,
\* before an event tracked during the attempt, and no loop is active.
C25_Witness ==
    /\ Len(eventQueue) >= 2
    /\ Head(eventQueue).client_id \in failedUnrecorded
    /\ Head(eventQueue).client_id \notin acked
    /\ eventQueue[2].client_id > Head(eventQueue).client_id
    /\ ~isProcessing
    /\ inflight = {}

\* The pause after a failed attempt: events are pending and no loop is active.
AwaitingRetry == sessionId # NONE /\ eventQueue # <<>> /\ ~isProcessing /\ inflight = {}

\* C26: on a client that is initialized and not cleaned up, the event at the head
\* of the pending queue after a failed attempt is eventually attempted again, with
\* no UI handler having to run, and once the attempts stop failing every event the
\* client holds is eventually delivered, the pending queue being empty again and
\* again.
C26_RetriedWithoutAction ==
    /\ \A id \in 1..MaxRetryEvents :
          (AwaitingRetry /\ Head(eventQueue).client_id = id) ~> (id \in InFlight)
    /\ \A id \in 1..MaxRetryEvents : (id \in Held) ~> (id \in acked)
    /\ []<>(eventQueue = <<>> /\ inflight = {})

\* C26 witness: an event whose attempt had failed has been delivered by a retry
\* that only the idle timeout can have started: the one event a UI handler tracked
\* was tracked before the failure, every other event is an IDLE_GAP.
C26_Witness ==
    /\ 1 \in failedUnrecorded
    /\ 1 \in acked
    /\ Len(tracked) >= 2
    /\ tracked[1].event.type # IDLE_GAP
    /\ \A n \in 2..Len(tracked) : tracked[n].event.type = IDLE_GAP

\* Client ids of the events with a failed delivery attempt.
Failed == failedUnrecorded \cup {id \in DOMAIN lostAcks : lostAcks[id] > 0}

\* C27: when trackEvent has accepted an event (the client is initialized) a
\* delivery loop is active, a request being awaited; events are pending while no
\* loop is active only after a failed attempt, the failed event being at the head.
C27_TrackTriggersDelivery ==
    [][/\ Len(tracked') > Len(tracked) => (isProcessing' /\ inflight' # {})
       /\ (eventQueue' # <<>> /\ ~isProcessing') =>
             (inflight' = {} /\ Head(eventQueue').client_id \in Failed')]_vars

\* C27 witness: trackEvent has ended the pause after a failed attempt: the failed
\* event is in flight again and the event just tracked waits behind it.
C27_Witness ==
    /\ isProcessing
    /\ \E id \in failedUnrecorded : id \in InFlight /\ id \notin acked
    /\ Len(tracked) \in Queued
    /\ tracked[Len(tracked)].event.type # IDLE_GAP

\* C28: the step in which an IDLE_GAP event is enqueued leaves lastActivityTime as
\* it was and arms no timeout: the timeout that ran is gone, no other is pending
\* that was not pending before, and idleTimer keeps its handle.
C28_IdleGapIsNotActivity ==
    [][(/\ Len(tracked') > Len(tracked)
        /\ tracked'[Len(tracked')].event.type = IDLE_GAP)
          => /\ lastActivityTime' = lastActivityTime
             /\ idleTimer' = idleTimer
             /\ timers' \subseteq timers]_vars

\* C29: while the client is unbound, from cleanup() to the next initialize(), the
\* pending queue is empty: trackEvent enqueues nothing, and a request that was in
\* flight at cleanup() and fails afterwards does not bring its event back.
C29_PendingEmptyWhileUnbound == sessionId = NONE => eventQueue = <<>>

\* C30: a request of the client is a session id and an event, the event being its
\* type and its metadata with the capture timestamp and the client's id of the
\* event; no event the client holds or has sent carries a sequence number, and the
\* sequence of a record in the store is its rank among the records of its session,
\* whatever the client sent.
C30_ClientAssignsNoSequence ==
    /\ \A r \in inflight :
          /\ DOMAIN r \ {"stored"} = {"session_id", "event"}
          /\ {"type", "timestamp", "client_id"} \subseteq DOMAIN r.event
          /\ "sequence" \notin DOMAIN r.event
          /\ r.event = tracked[r.event.client_id].event
    /\ \A n \in DOMAIN eventQueue : "sequence" \notin DOMAIN eventQueue[n]
    /\ \A i \in DOMAIN store :
          /\ "sequence" \notin DOMAIN store[i].event
          /\ store[i].sequence =
                 Cardinality({j \in 1..i : store[j].session_id = store[i].session_id})

\* C30 witness: a request is in flight while the store holds a record whose
\* sequence differs from the client's id of its event.
C30_Witness ==
    /\ inflight # {}
    /\ \E i \in DOMAIN store : store[i].sequence # store[i].event.client_id

\* The event is the one trackEvent built, as the history log has it.
AsTracked(ev, log) == ev = log[ev.client_id].event

\* C31: trackEvent stamps the event it accepts with the instant of the call and
\* with a client id of its own, and leaves the events accepted before as they
\* were; every copy of an event, in the pending queue, in a request (the first
\* attempt and every retry) and in the store, is the event as it was accepted, with
\* its type, metadata, timestamp and client id.
C31_StampedOnce ==
    [][/\ Len(tracked') > Len(tracked) =>
             /\ tracked'[Len(tracked')].event.timestamp = now
             /\ tracked'[Len(tracked')].event.client_id = Len(tracked')
             /\ SubSeq(tracked', 1, Len(tracked)) = tracked
       /\ Len(tracked') >= Len(tracked)
       /\ \A n \in DOMAIN eventQueue' : AsTracked(eventQueue'[n], tracked')
       /\ \A r \in inflight' : AsTracked(r.event, tracked')
       /\ \A i \in DOMAIN store' : AsTracked(store'[i].event, tracked')]_vars

\* C31 witness: an event tracked at one instant has been sent again at a later
\* instant, after a failed attempt, and the store has recorded the retry.
C31_Witness ==
    \E r \in inflight :
        /\ r.stored
        /\ r.event.timestamp < now
        /\ r.event.client_id \in failedUnrecorded
        /\ \E i \in Copies(r.event.client_id) : store[i].event.timestamp < now

\* C32 as stated: every change of phase is coding to interview or interview to
\* completed, never coding to completed directly.
C32_NoStateSkipped ==
    [][phase' # phase =>
          \/ phase = "coding" /\ phase' = "interview"
          \/ phase = "interview" /\ phase' = "completed"]_vars

\* C32, amended: every change of phase is coding to interview, interview to
\* completed, or coding to completed by a complete() of an abandoned or
\* force-ended session; each change moves forward in coding < interview <
\* completed, so the phase advances at most twice in a session.
C32_SkipsOnlyWhenForceEnded ==
    [][phase' # phase =>
          \/ phase = "coding" /\ phase' = "interview"
          \/ phase = "interview" /\ phase' = "completed"
          \/ phase = "coding" /\ phase' = "completed" /\ forceEnded']_vars

\* C32 witness: a force-ended session was completed from coding, without submit(),
\* and a later complete() without the flag was rejected.
C32_Witness ==
    /\ phase = "completed"
    /\ submitted_at = UNSET
    /\ ~forceEnded
    /\ lastResult = InvalidTransition
    /\ \E i \in DOMAIN store : store[i].event.type = SESSION_COMPLETED

\* C33: within one analyze() the synthesis service is called exactly once, while
\* the analysis runs and when it has returned; after an answer that is not a
\* usable result (unavailable, malformed, timed out) the record returned is the
\* rule-based one, computed without a further call.
C33_SynthesizedOncePerAnalysis ==
    /\ analysis # <<>> => analysis[2] = 1
    /\ \A n \in DOMAIN analyzed :
          /\ analyzed[n].invocations = 1
          /\ ~Succeeded(analyzed[n].response) =>
                analyzed[n].result = generate_fallback_insights(analyzed[n].event_log)

\* C33 witness: an analysis of a log with events has returned the rule-based record
\* after the one call timed out, and the next analysis of the session is waiting
\* for the service.
C33_Witness ==
    /\ analyzed # <<>>
    /\ analyzed[1].response.status = "timeout"
    /\ analyzed[1].event_log # <<>>
    /\ analyzed[1].invocations = 1
    /\ analyzed[1].result = generate_fallback_insights(analyzed[1].event_log)
    /\ analysis # <<>>

\* What execution n has called so far, in order.
CallsOf(n) == SelectSeq(calls, LAMBDA c : c.execution = n)
Called(n) == [k \in DOMAIN CallsOf(n) |-> CallsOf(n)[k].call]

\* Execution n has returned: its last tracker call, trackRunResult, is made.
Returned(n) == \E k \in DOMAIN calls : calls[k].execution = n /\ calls[k].call = "trackRunResult"

\* The calls of trackSQLComplexity made for execution n.
Classified(n) == {k \in DOMAIN calls : calls[k].execution = n /\ calls[k].call = "trackSQLComplexity"}

\* C34: every executeCell that has returned, all of them on SQL cells, has called
\* trackSQLComplexity exactly once, whether its request succeeded or failed.
C34_ClassifiedAfterEachExecution ==
    \A n \in 1..globalExecutionCount : Returned(n) => Cardinality(Classified(n)) = 1

\* The last k events accepted by trackEvent, by type.
LastTracked(log, k) == [j \in 1..k |-> log[Len(log) - k + j].event.type]

\* The types of the complexity events of the code of a cell.
ComplexityOf(code) ==
    LET events == complexityEvents(classify(QueryTexts[code]), QueryTexts[code])
    IN  [j \in DOMAIN events |-> events[j].type]

\* What the executeCell calls have called so far is, for each, in this order:
\* trackCodeRun and the execution request, then after a response
\* trackSQLComplexity and one trackRunResult, or after a failure trackError and,
\* directly after it, one trackRunResult.
CalledInOrder ==
    /\ \A n \in 1..globalExecutionCount :
          Called(n) \in {<<"trackCodeRun", "axios.post">>,
                         <<"trackCodeRun", "axios.post", "trackSQLComplexity">>,
                         <<"trackCodeRun", "axios.post", "trackSQLComplexity",
                           "trackRunResult">>,
                         <<"trackCodeRun", "axios.post", "trackError">>,
                         <<"trackCodeRun", "axios.post", "trackError", "trackRunResult">>}
    /\ \A k \in DOMAIN calls :
          /\ calls[k].call = "trackError" =>
                /\ calls[k].outcome = "failed"
                /\ k < Len(calls) =>
                      /\ calls[k + 1].call = "trackRunResult"
                      /\ calls[k + 1].execution = calls[k].execution
          /\ calls[k].call = "trackSQLComplexity" => calls[k].outcome # "failed"
          /\ (calls[k].call = "trackRunResult" /\ calls[k].outcome = "failed") =>
                /\ k > 1
                /\ calls[k - 1].call = "trackError"
                /\ calls[k - 1].execution = calls[k].execution

\* The events tracked last are a RUN_RESULT with the given success and, before it,
\* the ERROR_OCCURRED of the failure or the complexity events of the text
\* classified last.
TrackedInOrder(log, classified, success) ==
    /\ log[Len(log)].event.type = "RUN_RESULT"
    /\ log[Len(log)].event.success = success
    /\ ~success => log[Len(log) - 1].event.type = "ERROR_OCCURRED"
    /\ success =>
          LastTracked(SubSeq(log, 1, Len(log) - 1),
                      Len(ComplexityOf(classified[Len(classified)].text)))
             = ComplexityOf(classified[Len(classified)].text)

C39_OnlyOwnCellUpdated ==
    [][(/\ Len(calls') > Len(calls)
        /\ calls'[Len(calls')].outcome # "awaited")
          => filterCell(cells', calls'[Len(calls')].id)
                = filterCell(cells, calls'[Len(calls')].id)]_vars

\* C35: a trackEvent call on a client that is bound to no session, here the call
\* for a complexity event, enqueues nothing, leaves lastActivityTime, the idle
\* timer and the pending timeouts as they are, and starts no delivery, also when
\* events are pending and no loop is running.
C35_UnboundTrackIsNoOp ==
    [][(/\ sessionId = NONE
        /\ emitting # <<>>
        /\ emitting' = Tail(emitting))
          => UNCHANGED <<sessionId, eventQueue, tracked, lastActivityTime, idleTimer,
                         timers, isProcessing, inflight, store>>]_vars

\* C35 witness: after cleanup() a failed request has put its event back, no loop
\* is running, and the events of a classified text have been handed to trackEvent
\* on the unbound client.
C35_Witness ==
    /\ sessionId = NONE
    /\ eventQueue # <<>>
    /\ ~isProcessing
    /\ emitting = <<>>
    /\ returned # <<>>
    /\ ~returned[Len(returned)].initialized
    /\ ~returned[Len(returned)].draining
    /\ returned[Len(returned)].complexity.has_subquery
    /\ tracked # <<>>

\* C36: in every state at most one timeout is pending, and it is the one idleTimer
\* names.
C36_OneIdleTimer ==
    /\ Cardinality(timers) <= 1
    /\ \A t \in timers : t.h = idleTimer

\* C36 witness: initialize() has run again, without a cleanup() since the pending
\* event was tracked, later than the last activity: the one pending timeout is due
\* later than the timeout of that activity was.
C36_Witness ==
    /\ sessionId # NONE
    /\ eventQueue # <<>>
    /\ \E t \in timers : t.due > lastActivityTime + idleThreshold

\* C37: isProcessing is set exactly while a delivery loop is running, that is
\* while a logEvent request is awaited: in no state is the flag set without a
\* loop, or a loop running with the flag cleared, whatever cleanup() and
\* initialize() did while the request was in flight.
C37_FlagIffLoopRunning == isProcessing <=> inflight # {}

\* C37 witness: cleanup() ran while a request was in flight, the request failed
\* afterwards, and the loop has ended with the flag cleared.
C37_Witness ==
    /\ ~isProcessing
    /\ inflight = {}
    /\ \E id \in abandoned : id \in Queued /\ id \in Failed
====
